---- MODULE Spec2Model ----
(***************************************************************************)
(* Model of output_pattern.py (hurst_inference): the per-day volatility    *)
(* pipeline (subsample, log-increments, truncation threshold, truncated    *)
(* points, rolling realized variance, timestamp alignment) and the         *)
(* cross-day pattern aggregation (full pattern, rolling sub-patterns).     *)
(*                                                                         *)
(* Numbers.  Log-prices are fixed-point, in units of 1/1000.  A threshold  *)
(* k*sqrt(V) is kept as the pair (k, V) with V an exact rational, so that  *)
(* |x| > k*sqrt(V) is decided as x^2 * den(V) > k^2 * num(V).  A variance  *)
(* estimate is an exact rational num/den: num in squared log units, den =  *)
(* window * delta with delta in units of 1/(252*23400).                    *)
(***************************************************************************)
EXTENDS Integers, Sequences, FiniteSets

VARIABLES
    pc,                \* position in the script
    series,            \* the day's observations as loaded: sequence of prices
    DT,                \* timestamps aligned to the current price series
    subsampling,       \* line 23
    window,            \* line 24
    truncation_method, \* line 25
    price_array,       \* line 53
    increments,        \* line 59
    truncationValue,   \* lines 62-72
    truncated_points,  \* line 75
    vol,               \* line 78
    vol_DT,            \* line 79
    error,             \* the exception that ended the script, or "none"
    all_vols,          \* line 115
    window_pattern,    \* line 26
    full_pattern,      \* line 127
    start,             \* loop variable of line 135
    small_patterns,    \* line 134
    small_blocks       \* the day indices sliced at line 136, one entry per pattern

vars == <<pc, series, DT, subsampling, window, truncation_method, price_array,
          increments, truncationValue, truncated_points, vol, vol_DT, error,
          all_vols, window_pattern, full_pattern, start, small_patterns,
          small_blocks>>

dayVars == <<series, DT, subsampling, window, truncation_method, price_array,
             increments, truncationValue, truncated_points, vol, vol_DT>>

patternVars == <<all_vols, window_pattern, full_pattern, start, small_patterns,
                 small_blocks>>

----------------------------------------------------------------------------
(* Bounds of the model. *)

MaxN == 4          \* longest exhaustively enumerated price series
MaxStep == 9       \* longest quiet day holding a single jump
MaxWindow == 2
MaxFactor == 2
MaxK == 5          \* largest truncation multiplier compared
MaxDays == 5
MaxWP == 3

PriceSet == {99, 100, 101, 150}

Scenario == <<100, 101, 99, 150, 101>>

Methods == {"STD3", "STD5", "BIVAR3", "BIVAR5", "STD4"}

KnownMethods == {"STD3", "STD5", "BIVAR3", "BIVAR5"}

----------------------------------------------------------------------------
(* Generic sequence helpers. *)

Abs(x) == IF x < 0 THEN -x ELSE x

Min(a, b) == IF a < b THEN a ELSE b

Max(a, b) == IF a > b THEN a ELSE b

RECURSIVE SeqSum(_)
SeqSum(s) == IF s = <<>> THEN 0 ELSE Head(s) + SeqSum(Tail(s))

Squares(s) == [i \in 1..Len(s) |-> s[i] * s[i]]

\* Python's seq[:k]: a negative k counts from the end, and the slice is clamped.
PySliceTo(s, k) ==
    LET n == IF k >= 0 THEN Min(k, Len(s)) ELSE Max(Len(s) + k, 0)
    IN  SubSeq(s, 1, n)

\* Python's seq[a:b] for 0 <= a: clamped to the sequence (0-based a, b).
PySlice(s, a, b) == SubSeq(s, Min(a, Len(s)) + 1, Min(b, Len(s)))

----------------------------------------------------------------------------
(* np.log in fixed point: natural log of an integer price, in 1/1000.      *)
(* ln p = k ln 2 + 2 atanh((p - 2^k)/(p + 2^k)), the series cut at z^9,    *)
(* computed in units of 1/100000 and rounded.                              *)

RECURSIVE Pow2Le(_, _)
Pow2Le(p, b) == IF 2 * b <= p THEN Pow2Le(p, 2 * b) ELSE b

RECURSIVE Log2(_)
Log2(b) == IF b <= 1 THEN 0 ELSE 1 + Log2(b \div 2)

LnFix(p) ==
    LET b  == Pow2Le(p, 1)
        Z  == (100000 * (p - b)) \div (p + b)
        Z2 == (Z * Z) \div 100000
        Z3 == (Z2 * Z) \div 100000
        Z5 == (Z3 * Z2) \div 100000
        Z7 == (Z5 * Z2) \div 100000
        Z9 == (Z7 * Z2) \div 100000
    IN  Log2(b) * 69315
        + 2 * (Z + (Z3 \div 3) + (Z5 \div 5) + (Z7 \div 7) + (Z9 \div 9))

np_log(prices) == [i \in 1..Len(prices) |-> (LnFix(prices[i]) + 50) \div 100]

\* log_price[1:] - log_price[:-1]
np_diff(lp) == [i \in 1..(Len(lp) - 1) |-> lp[i + 1] - lp[i]]

----------------------------------------------------------------------------
(* PriceSeries.subsample: every factor-th observation from index 0, as     *)
(* many as floor(N / factor).                                              *)

RECURSIVE Take(_, _, _, _)
Take(s, i, step, n) ==
    IF n = 0 THEN <<>> ELSE <<s[i]>> \o Take(s, i + step, step, n - 1)

\* Variant: the stride s[::factor], which also keeps a trailing observation.
subsample_Stride(s, factor) ==
    Take(s, 1, factor, (Len(s) + factor - 1) \div factor)

subsample(s, factor) == Take(s, 1, factor, Len(s) \div factor)

\* delta = 1.0 / (252.0 * 23400) * subsampling, in units of 1/(252*23400)
delta == subsampling

----------------------------------------------------------------------------
(* Thresholds. *)

Inf == [kind |-> "inf", k |-> 0, num |-> 0, den |-> 1]

NaN == [kind |-> "nan", k |-> 0, num |-> 0, den |-> 1]

Fin(k, num, den) == [kind |-> "fin", k |-> k, num |-> num, den |-> den]

\* np.abs(x) > t; a comparison with nan is False, nothing exceeds +inf.
Exceeds(x, t) == t.kind = "fin" /\ x * x * t.den > t.k * t.k * t.num

\* k * np.std(increments): the population variance n*sum(x^2) - sum(x)^2 over n^2
\* (np.std of an empty array is nan).
FixedStd(k, inc) ==
    LET n == Len(inc)
    IN  IF n = 0 THEN NaN
        ELSE Fin(k, n * SeqSum(Squares(inc)) - SeqSum(inc) * SeqSum(inc), n * n)

\* |r_i| * |r_{i+1}| for consecutive increments
BipowerProducts(inc) ==
    [i \in 1..(Len(inc) - 1) |-> Abs(inc[i]) * Abs(inc[i + 1])]

\* Bias-corrected bipower variation of an increment sequence per unit time:
\* (pi/2) * mean(|r_i||r_{i+1}|) / delta, with pi/2 taken as 11/7.  A record
\* num/den in units of 1/delta-unit; nan when there is no product to average.
BipowerOf(inc, dlt) ==
    LET prods == BipowerProducts(inc)
    IN  IF Len(prods) = 0
        THEN [nan |-> TRUE, num |-> 0, den |-> 1]
        ELSE [nan |-> FALSE, num |-> 11 * SeqSum(prods),
              den |-> 7 * Len(prods) * dlt]

\* bipower_average_V(log_price, window, delta) as the script uses it: one
\* scalar for the day.
bipower_average_V(log_price, w, dlt) == BipowerOf(np_diff(log_price), dlt)

\* k * np.sqrt(bav * delta)
AdaptiveBipower(k, bav, dlt) ==
    IF bav.nan THEN NaN ELSE Fin(k, bav.num * dlt, bav.den)

\* Variant: the multiplier of the STD methods dropped (np.std alone).
SelectThreshold_Unscaled(method, log_price, inc, w, dlt) ==
    IF method \in {"STD3", "STD5"} THEN FixedStd(1, inc)
    ELSE IF method = "BIVAR3"
         THEN AdaptiveBipower(3, bipower_average_V(log_price, w, dlt), dlt)
    ELSE IF method = "BIVAR5"
         THEN AdaptiveBipower(5, bipower_average_V(log_price, w, dlt), dlt)
    ELSE Inf

\* Variant: the multipliers 3 and 5 exchanged.
SelectThreshold_Swapped(method, log_price, inc, w, dlt) ==
    IF method = "STD3" THEN FixedStd(5, inc)
    ELSE IF method = "STD5" THEN FixedStd(3, inc)
    ELSE IF method = "BIVAR3"
         THEN AdaptiveBipower(5, bipower_average_V(log_price, w, dlt), dlt)
    ELSE IF method = "BIVAR5"
         THEN AdaptiveBipower(3, bipower_average_V(log_price, w, dlt), dlt)
    ELSE Inf

\* Lines 62-72: the if/elif chain; a name it does not list leaves np.inf.
SelectThreshold(method, log_price, inc, w, dlt) ==
    IF method = "STD3" THEN FixedStd(3, inc)
    ELSE IF method = "STD5" THEN FixedStd(5, inc)
    ELSE IF method = "BIVAR3"
         THEN AdaptiveBipower(3, bipower_average_V(log_price, w, dlt), dlt)
    ELSE IF method = "BIVAR5"
         THEN AdaptiveBipower(5, bipower_average_V(log_price, w, dlt), dlt)
    ELSE Inf

\* Variant: >= in place of >.
TruncatedPoints_Ge(inc, t) ==
    [i \in 1..Len(inc) |->
        t.kind = "fin" /\ inc[i] * inc[i] * t.den >= t.k * t.k * t.num]

\* Line 75: np.abs(increments) > truncationValue
TruncatedPoints(inc, t) == [i \in 1..Len(inc) |-> Exceeds(inc[i], t)]

----------------------------------------------------------------------------
(* VolatilityEstimator.compute (volatility.py, not among the sources):     *)
(* modelled from spec section 4.4.                                         *)

\* The threshold compute applies to one window: global methods reuse the
\* day's threshold, adaptive methods recompute it on the window's increments.
WindowThreshold(method, local, inc, dlt) ==
    IF method = "STD3" THEN FixedStd(3, inc)
    ELSE IF method = "STD5" THEN FixedStd(5, inc)
    ELSE IF method = "BIVAR3" THEN AdaptiveBipower(3, BipowerOf(local, dlt), dlt)
    ELSE AdaptiveBipower(5, BipowerOf(local, dlt), dlt)

\* Sum of the squares of the increments that do not exceed t (step 3).
RECURSIVE TruncatedSumSq(_, _)
TruncatedSumSq(local, t) ==
    IF local = <<>> THEN 0
    ELSE (IF Exceeds(Head(local), t) THEN 0 ELSE Head(local) * Head(local))
         + TruncatedSumSq(Tail(local), t)

RECURSIVE CountRetained(_, _)
CountRetained(local, t) ==
    IF local = <<>> THEN 0
    ELSE (IF Exceeds(Head(local), t) THEN 0 ELSE 1)
         + CountRetained(Tail(local), t)

\* Variant: an all-truncated window silently reported as the estimate 0.
Estimate_ZeroCoerced(local, t, w, dlt) ==
    [undefined |-> FALSE, num |-> TruncatedSumSq(local, t), den |-> w * dlt]

\* One position of the output: the retained sum over window * delta (step 4),
\* flagged undefined when every increment of the window was truncated (step 5).
Estimate(local, t, w, dlt) ==
    [undefined |-> CountRetained(local, t) = 0,
     num |-> TruncatedSumSq(local, t),
     den |-> w * dlt]

\* The exception compute raises, or "none".
compute_error(prices, method, w) ==
    IF method \notin KnownMethods THEN "ConfigurationError"
    ELSE IF Len(prices) <= w THEN "InsufficientDataError"
    ELSE "none"

\* The values of the Volatility compute returns: one estimate per window of
\* w consecutive increments, windows starting at increments 0 .. N-w-1.
compute(prices, method, w, dlt) ==
    LET inc == np_diff(np_log(prices))
    IN  [i \in 1..(Len(prices) - w) |->
            LET local == SubSeq(inc, i, i + w - 1)
            IN  Estimate(local, WindowThreshold(method, local, inc, dlt), w, dlt)]

----------------------------------------------------------------------------
(* One day of the script, lines 48-90. *)

ShortSeries == UNION {[1..n -> PriceSet] : n \in 1..MaxN}

\* A quiet day with one jump: the price 100 up to observation j, 150 after.
StepDays ==
    {[i \in 1..n |-> IF i <= j THEN 100 ELSE 150] :
        n \in (MaxN + 1)..MaxStep, j \in 1..(MaxStep - 1)}

PriceFiles == ShortSeries \cup {Scenario} \cup StepDays

Timestamps(n) == [i \in 1..n |-> i - 1]

NoPattern == <<>>

InitPatternIdle ==
    /\ all_vols = <<>>
    /\ window_pattern = 1
    /\ full_pattern = NoPattern
    /\ start = 0
    /\ small_patterns = <<>>
    /\ small_blocks = <<>>

Init ==
    /\ pc = "get_price"
    /\ series \in PriceFiles
    /\ DT = Timestamps(Len(series))
    /\ subsampling \in 1..MaxFactor
    /\ window \in 1..MaxWindow
    /\ truncation_method \in Methods
    /\ price_array = <<>>
    /\ increments = <<>>
    /\ truncationValue = Inf
    /\ truncated_points = <<>>
    /\ vol = <<>>
    /\ vol_DT = <<>>
    /\ error = "none"
    /\ InitPatternIdle

\* Lines 51-53: price = DH.get_price(...); price.subsample(subsampling);
\* price_array = price.get_price().  The script drops subsample's result and
\* reads the series back, so the subsampling takes effect on the price object.
GetPrice ==
    /\ pc = "get_price"
    /\ price_array' = subsample(series, subsampling)
    /\ DT' = subsample(DT, subsampling)
    /\ pc' = "log"
    /\ UNCHANGED <<series, subsampling, window, truncation_method, increments,
                   truncationValue, truncated_points, vol, vol_DT, error>>
    /\ UNCHANGED patternVars

\* Lines 58-59
LogIncrements ==
    /\ pc = "log"
    /\ increments' = np_diff(np_log(price_array))
    /\ pc' = "threshold"
    /\ UNCHANGED <<series, DT, subsampling, window, truncation_method,
                   price_array, truncationValue, truncated_points, vol, vol_DT,
                   error>>
    /\ UNCHANGED patternVars

\* Lines 62-72
Threshold ==
    /\ pc = "threshold"
    /\ truncationValue' = SelectThreshold(truncation_method, np_log(price_array),
                                          increments, window, delta)
    /\ pc' = "truncate"
    /\ UNCHANGED <<series, DT, subsampling, window, truncation_method,
                   price_array, increments, truncated_points, vol, vol_DT, error>>
    /\ UNCHANGED patternVars

\* Line 75
Truncate ==
    /\ pc = "truncate"
    /\ truncated_points' = TruncatedPoints(increments, truncationValue)
    /\ pc' = "compute"
    /\ UNCHANGED <<series, DT, subsampling, window, truncation_method,
                   price_array, increments, truncationValue, vol, vol_DT, error>>
    /\ UNCHANGED patternVars

\* Line 78: vol = ve.compute(price_array); an exception ends the script.
Compute ==
    /\ pc = "compute"
    /\ error' = compute_error(price_array, truncation_method, window)
    /\ IF error' = "none"
       THEN /\ vol' = compute(price_array, truncation_method, window, delta)
            /\ pc' = "align"
       ELSE /\ vol' = vol
            /\ pc' = "aborted"
    /\ UNCHANGED <<series, DT, subsampling, window, truncation_method,
                   price_array, increments, truncationValue, truncated_points,
                   vol_DT>>
    /\ UNCHANGED patternVars

\* Line 79: vol_DT = price.get_DT()[:len(price_array) - window]
AlignDT ==
    /\ pc = "align"
    /\ vol_DT' = PySliceTo(DT, Len(price_array) - window)
    /\ pc' = "done"
    /\ UNCHANGED <<series, DT, subsampling, window, truncation_method,
                   price_array, increments, truncationValue, truncated_points,
                   vol, error>>
    /\ UNCHANGED patternVars

Next == GetPrice \/ LogIncrements \/ Threshold \/ Truncate \/ Compute \/ AlignDT

Spec == Init /\ [][Next]_vars

----------------------------------------------------------------------------
(* Properties of one day's pipeline (specification Spec). *)

Computed == pc \in {"align", "done"}

\* The increments of window i (1-based): increments i .. i+window-1.
WindowIdx(i) == i..(i + window - 1)

LocalIncrements(i) == SubSeq(increments, i, i + window - 1)

RECURSIVE SetSumSq(_, _)
SetSumSq(S, inc) ==
    IF S = {} THEN 0
    ELSE LET j == CHOOSE x \in S : TRUE
         IN  inc[j] * inc[j] + SetSumSq(S \ {j}, inc)

NaiveSumSq(i) == SetSumSq(WindowIdx(i), increments)

GlobalMethod == truncation_method \in {"STD3", "STD5"}

\* The threshold in force for window i: the script's truncationValue for the
\* global methods, k * sqrt(local bipower variation * delta) for the adaptive.
ThresholdAt(i) ==
    IF GlobalMethod THEN truncationValue
    ELSE AdaptiveBipower(IF truncation_method = "BIVAR3" THEN 3 ELSE 5,
                         BipowerOf(LocalIncrements(i), delta), delta)

RetainedAt(i) == {j \in WindowIdx(i) : ~Exceeds(increments[j], ThresholdAt(i))}

\* The scenario, once the script has marked the truncated points (line 75).
ScenarioTruncated ==
    /\ pc \in {"compute", "align", "done"}
    /\ price_array = Scenario
    /\ window = 2
    /\ truncation_method = "STD3"

\* The sum of squares of window i without the increments line 75 marks.
UnmarkedSumSq(i) ==
    SetSumSq({j \in WindowIdx(i) : ~truncated_points[j]}, increments)

\* C1 as stated: in the scenario the two increments flanking price 150
\* (increments 3 and 4) exceed the threshold 3 * std, and every window that
\* covers one of them has a truncated sum of squares strictly below its naive
\* sum of squares.
C1_FlankingIncrementsTruncated ==
    ScenarioTruncated =>
        /\ truncated_points[3] /\ truncated_points[4]
        /\ \A i \in 1..(Len(price_array) - window) :
              (WindowIdx(i) \cap {3, 4} # {}) => UnmarkedSumSq(i) < NaiveSumSq(i)

\* C1 amended: in the scenario the increments are about (0.010, -0.020, 0.416,
\* -0.396), the threshold is 3 * std of all four, no increment exceeds it (the
\* two flanking price 150 included), so none is excluded and the truncated sum
\* of squares of each of the three windows equals its naive sum.
C1_ScenarioNothingTruncated ==
    ScenarioTruncated =>
        /\ increments = <<10, -20, 416, -396>>
        /\ truncationValue = FixedStd(3, increments)
        /\ \A j \in 1..4 :
              /\ ~Exceeds(increments[j], truncationValue)
              /\ ~truncated_points[j]
        /\ \A i \in 1..(Len(price_array) - window) :
              UnmarkedSumSq(i) = NaiveSumSq(i)

C1_Witness ==
    /\ ScenarioTruncated
    /\ Len(truncated_points) = 4
    /\ Abs(increments[3]) > 400

\* C2: at every window position the estimate is the sum of the squares of
\* exactly the increments of the window whose absolute value is <= the
\* threshold (for the global methods: exactly those the script does not mark
\* in truncated_points), over window * delta whatever the number retained.
C2_ExcludedNotClipped ==
    Computed =>
        /\ Len(vol) = Len(price_array) - window
        /\ \A i \in 1..Len(vol) :
              /\ vol[i].num = SetSumSq(RetainedAt(i), increments)
              /\ vol[i].den = window * delta
              /\ GlobalMethod =>
                    RetainedAt(i) = {j \in WindowIdx(i) : ~truncated_points[j]}

\* A window holding a truncated increment and a retained non-zero one.
C2_Witness ==
    /\ Computed
    /\ \E i \in 1..Len(vol) :
          /\ 0 < vol[i].num
          /\ vol[i].num < NaiveSumSq(i)
          /\ Cardinality(RetainedAt(i)) < window

\* C5 as stated: N - window estimates and as many timestamps, estimate i
\* paired with the timestamp of observation i + window (the window's last).
C5_AlignedToLastObservation ==
    pc = "done" =>
        /\ Len(vol) = Len(price_array) - window
        /\ Len(vol_DT) = Len(vol)
        /\ \A i \in 1..Len(vol) : vol_DT[i] = DT[i + window]

\* C6: compute does not fail, and an estimate is flagged undefined exactly
\* when every increment of its window exceeds the threshold; every other
\* position carries its ordinary estimate, a genuine 0 included.
C6_UndefinedFlagged ==
    Computed =>
        /\ error = "none"
        /\ Len(vol) = Len(price_array) - window
        /\ \A i \in 1..Len(vol) :
              /\ vol[i].undefined <=> (RetainedAt(i) = {})
              /\ (RetainedAt(i) # {}) =>
                    vol[i].num = SetSumSq(RetainedAt(i), increments)

\* An undefined position beside a genuine estimate of 0 on the same day.
C6_Witness ==
    /\ Computed
    /\ \E i1, i2 \in 1..Len(vol) :
          /\ vol[i1].undefined
          /\ ~vol[i2].undefined /\ vol[i2].num = 0

\* C8: the subsampled series holds the observations at indices 0, factor,
\* 2*factor, ..., has length floor(N / factor), and equals the original for
\* factor 1 (timestamps are the original 0-based indices).
C8_Subsample ==
    (pc # "get_price") =>
        /\ Len(price_array) = Len(series) \div subsampling
        /\ Len(DT) = Len(price_array)
        /\ \A j \in 1..Len(price_array) :
              /\ price_array[j] = series[(j - 1) * subsampling + 1]
              /\ DT[j] = (j - 1) * subsampling
        /\ (subsampling = 1) => (price_array = series)

\* A series whose length is not a multiple of the factor.
C8_Witness ==
    /\ pc # "get_price"
    /\ subsampling > 1
    /\ Len(series) % subsampling # 0
    /\ Len(price_array) >= 2

\* C9 as stated: once a threshold has been selected under a name other than
\* STD3, STD5, BIVAR3, BIVAR5, the run has failed with ConfigurationError.
C9_UnknownMethodFails ==
    (truncation_method \notin KnownMethods /\ pc \notin {"get_price", "log", "threshold"})
        => error = "ConfigurationError"

RetainedUnder(t) == {j \in 1..Len(increments) : ~Exceeds(increments[j], t)}

\* C10: for the day's increments the set retained under multiplier k1 is a
\* subset of the set retained under k2 whenever k1 <= k2, for k * std and for
\* k * sqrt(bipower * delta); so for the script's STD3/STD5 and BIVAR3/BIVAR5.
C10_Monotone ==
    (pc \notin {"get_price", "log"}) =>
        LET lp  == np_log(price_array)
            bav == bipower_average_V(lp, window, delta)
            Sel(m) == SelectThreshold(m, lp, increments, window, delta)
        IN  /\ \A k1, k2 \in 0..MaxK :
                  (k1 <= k2) =>
                     /\ RetainedUnder(FixedStd(k1, increments))
                           \subseteq RetainedUnder(FixedStd(k2, increments))
                     /\ RetainedUnder(AdaptiveBipower(k1, bav, delta))
                           \subseteq RetainedUnder(AdaptiveBipower(k2, bav, delta))
            /\ RetainedUnder(Sel("STD3")) \subseteq RetainedUnder(Sel("STD5"))
            /\ RetainedUnder(Sel("BIVAR3")) \subseteq RetainedUnder(Sel("BIVAR5"))
            /\ Cardinality(RetainedUnder(Sel("STD3")))
                  <= Cardinality(RetainedUnder(Sel("STD5")))
            /\ Cardinality(RetainedUnder(Sel("BIVAR3")))
                  <= Cardinality(RetainedUnder(Sel("BIVAR5")))

\* An increment STD3 truncates and STD5 retains.
C10_Witness ==
    /\ pc \notin {"get_price", "log"}
    /\ LET lp == np_log(price_array)
       IN  \E j \in 1..Len(increments) :
              /\ Exceeds(increments[j],
                         SelectThreshold("STD3", lp, increments, window, delta))
              /\ ~Exceeds(increments[j],
                          SelectThreshold("STD5", lp, increments, window, delta))

----------------------------------------------------------------------------
(* PatternAggregator: volatility_pattern (volatility.py, not among the     *)
(* sources) modelled from spec section 4.6; the full pattern of line 127   *)
(* and the rolling sub-patterns of lines 134-137.  A Volatility is the     *)
(* sequence of its values, here integers; a Pattern value is the exact     *)
(* mean num/den.                                                           *)

RECURSIVE MinLen(_)
MinLen(vols) ==
    IF Len(vols) = 1 THEN Len(Head(vols))
    ELSE Min(Len(Head(vols)), MinLen(Tail(vols)))

RECURSIVE SumAt(_, _)
SumAt(vols, p) == IF vols = <<>> THEN 0 ELSE Head(vols)[p] + SumAt(Tail(vols), p)

\* The exception pattern() raises, or "none".
pattern_error(vols) == IF vols = <<>> THEN "InsufficientDataError" ELSE "none"

\* Variant: the sum across the days in place of the mean.
volatility_pattern_Sum(vols) ==
    [p \in 1..MinLen(vols) |-> [num |-> SumAt(vols, p), den |-> 1]]

\* The arithmetic mean across the days at each of the first L positions, L the
\* minimum length of the inputs.
volatility_pattern(vols) ==
    [p \in 1..MinLen(vols) |-> [num |-> SumAt(vols, p), den |-> Len(vols)]]

\* Variant: the range stops at len(all_vols).
RangeStop_NoWindow(D, w) == D

\* Variant: the window slides by one day.
RangeStep_Slide(w) == 1

\* Line 135: range(0, len(all_vols) - window_pattern + 1, window_pattern)
RangeStop(D, w) == D - w + 1

RangeStep(w) == w

\* Line 136: all_vols[start:start+window_pattern]
SliceVols(vols, st, w) == PySlice(vols, st, st + w)

\* The 0-based day indices the slice of line 136 takes.
SliceDays(D, st, w) == [i \in 1..(Min(st + w, D) - Min(st, D)) |-> Min(st, D) + i - 1]

\* The daily Volatility values fed to the aggregator: ramps of 1 or 2 positions.
VolSet == {<<1>>, <<2>>, <<1, 2>>, <<2, 3>>}

InitDayIdle ==
    /\ series = <<>>
    /\ DT = <<>>
    /\ subsampling = 1
    /\ window = 1
    /\ truncation_method = "STD3"
    /\ price_array = <<>>
    /\ increments = <<>>
    /\ truncationValue = Inf
    /\ truncated_points = <<>>
    /\ vol = <<>>
    /\ vol_DT = <<>>

\* The aggregator is entered at pattern() (line 127, the script's order) or at
\* the rolling loop alone (lines 134-137).
InitPattern ==
    /\ pc \in {"full_pattern", "rolling"}
    /\ all_vols \in UNION {[1..D -> VolSet] : D \in 0..MaxDays}
    /\ window_pattern \in 1..MaxWP
    /\ full_pattern = NoPattern
    /\ start = 0
    /\ small_patterns = <<>>
    /\ small_blocks = <<>>
    /\ error = "none"
    /\ InitDayIdle

\* Line 127: full_pattern = volatility_pattern(all_vols)
FullPattern ==
    /\ pc = "full_pattern"
    /\ error' = pattern_error(all_vols)
    /\ IF error' = "none"
       THEN /\ full_pattern' = volatility_pattern(all_vols)
            /\ pc' = "rolling"
       ELSE /\ full_pattern' = full_pattern
            /\ pc' = "aborted"
    /\ UNCHANGED <<all_vols, window_pattern, start, small_patterns, small_blocks>>
    /\ UNCHANGED dayVars

\* Lines 135-137, one iteration of the loop.
RollingStep ==
    /\ pc = "rolling"
    /\ start < RangeStop(Len(all_vols), window_pattern)
    /\ LET slice_vols == SliceVols(all_vols, start, window_pattern)
       IN  /\ error' = pattern_error(slice_vols)
           /\ IF error' = "none"
              THEN /\ small_patterns' =
                         Append(small_patterns, volatility_pattern(slice_vols))
                   /\ small_blocks' =
                         Append(small_blocks,
                                SliceDays(Len(all_vols), start, window_pattern))
                   /\ start' = start + RangeStep(window_pattern)
                   /\ pc' = "rolling"
              ELSE /\ UNCHANGED <<small_patterns, small_blocks, start>>
                   /\ pc' = "aborted"
    /\ UNCHANGED <<all_vols, window_pattern, full_pattern>>
    /\ UNCHANGED dayVars

\* Line 135: the range is exhausted.
RollingExit ==
    /\ pc = "rolling"
    /\ ~(start < RangeStop(Len(all_vols), window_pattern))
    /\ pc' = "done"
    /\ UNCHANGED <<error, all_vols, window_pattern, full_pattern, start,
                   small_patterns, small_blocks>>
    /\ UNCHANGED dayVars

NextPattern == FullPattern \/ RollingStep \/ RollingExit

SpecPattern == InitPattern /\ [][NextPattern]_vars

----------------------------------------------------------------------------
(* Properties of the aggregation (specification SpecPattern). *)

NumDays == Len(all_vols)

BlockDays(b) == [i \in 1..window_pattern |-> (b - 1) * window_pattern + i - 1]

BlockVols(b) == SubSeq(all_vols, (b - 1) * window_pattern + 1, b * window_pattern)

Range(s) == {s[i] : i \in 1..Len(s)}

\* C3: when the loop ends there is one pattern per block, floor(D / w) of
\* them; block b is days (b-1)w .. bw-1 in input order (exactly w days,
\* consecutive, pairwise disjoint), its pattern is pattern() of those days,
\* and the last D mod w days are in no block.
C3_ConsecutiveBlocks ==
    (pc = "done") =>
        /\ Len(small_patterns) = NumDays \div window_pattern
        /\ Len(small_blocks) = Len(small_patterns)
        /\ \A b \in 1..Len(small_blocks) :
              /\ small_blocks[b] = BlockDays(b)
              /\ small_patterns[b] = volatility_pattern(BlockVols(b))
        /\ \A b1, b2 \in 1..Len(small_blocks) :
              (b1 # b2) => (Range(small_blocks[b1]) \cap Range(small_blocks[b2]) = {})
        /\ \A d \in 0..(NumDays - 1) :
              (d >= (NumDays \div window_pattern) * window_pattern)
                 => \A b \in 1..Len(small_blocks) : d \notin Range(small_blocks[b])

\* Two blocks and a trailing partial block.
C3_Witness ==
    /\ pc = "done"
    /\ Len(small_patterns) >= 2
    /\ NumDays % window_pattern # 0
    /\ window_pattern >= 2

\* C4: with window_pattern larger than the number of days (zero days
\* included) the rolling loop yields no pattern and no error, and pattern()
\* is at no point applied to an empty or partial block.
C4_EmptyWhenWindowTooLarge ==
    /\ (pc \in {"rolling", "done"} /\ window_pattern > NumDays) =>
          /\ small_patterns = <<>>
          /\ small_blocks = <<>>
          /\ error = "none"
    /\ (pc \in {"rolling", "done"}) =>
          \A b \in 1..Len(small_blocks) : Len(small_blocks[b]) = window_pattern

C4_Witness ==
    /\ pc = "done"
    /\ NumDays >= 1
    /\ window_pattern > NumDays
    /\ small_patterns = <<>>

AllSame(vols) == \A d \in 1..Len(vols) : vols[d] = vols[1]

PatternOf(out, vols) ==
    /\ Len(out) = MinLen(vols)
    /\ \A d \in 1..Len(vols) : Len(out) <= Len(vols[d])
    /\ \E d \in 1..Len(vols) : Len(out) = Len(vols[d])
    /\ \A p \in 1..Len(out) :
          /\ out[p].den = Len(vols)
          /\ out[p].num = SumAt(vols, p)
          /\ AllSame(vols) => (out[p].num = vols[1][p] * out[p].den)

====
